---- MODULE Spec2Model ----
(***************************************************************************)
(* A model of herald, the haproxy agent-check daemon: the plugin engine of *)
(* herald/baseplugin.py (HeraldPlugin: background sampling greenlet, state *)
(* cache, staleness, graceful stop), the rule processors of                *)
(* herald/rules.py (HeraldPatterns, HeraldThresholds) and the server and   *)
(* signal handling of herald/herald.py.                                    *)
(*                                                                         *)
(* gevent runs greenlets cooperatively: a greenlet is suspended only in    *)
(* gevent.sleep, in Greenlet.join/kill and in the blocking I/O of a data   *)
(* source's run().  Every action below is the code between two such        *)
(* suspension points.                                                      *)
(*                                                                         *)
(* The numbers a data source returns are integers; float(value) and the    *)
(* arithmetic of the percentage rule are those of the IEEE 754 double.     *)
(* Text is a sequence of one-character strings.                            *)
(***************************************************************************)
EXTENDS Integers, Sequences, FiniteSets, TLC

\* ------------------------------------------------------------------ bounds
MaxTime == 3
MaxInterval == 2
MaxStaleness == 2
MaxStopTimeout == 2
NumConns == 2
NumSignals == 2
MaxRules == 2
MaxValue == 8

\* -------------------------------------------------------------------- text
Digits == <<"0", "1", "2", "3", "4", "5", "6", "7", "8", "9">>

DigitValue(c) == CHOOSE d \in 0..9 : Digits[d + 1] = c

IsDigit(c) == \E d \in 0..9 : Digits[d + 1] = c

IsSpace(c) == c \in {" ", "\n", "\t"}

RECURSIVE NatText(_)
NatText(n) == IF n < 10 THEN <<Digits[n + 1]>>
              ELSE NatText(n \div 10) \o <<Digits[(n % 10) + 1]>>

\* str(n) of an integer
IntText(n) == IF n < 0 THEN <<"-">> \o NatText(0 - n) ELSE NatText(n)

RECURSIVE DigitsValue(_)
DigitsValue(s) == IF s = <<>> THEN 0
                  ELSE 10 * DigitsValue(SubSeq(s, 1, Len(s) - 1)) + DigitValue(s[Len(s)])

RECURSIVE Strip(_)
Strip(s) == IF s = <<>> THEN s
            ELSE IF IsSpace(s[1]) THEN Strip(Tail(s))
            ELSE IF IsSpace(s[Len(s)]) THEN Strip(SubSeq(s, 1, Len(s) - 1))
            ELSE s

Unsigned(s) == IF s # <<>> /\ s[1] \in {"-", "+"} THEN Tail(s) ELSE s

\* float(text) succeeds: surrounding whitespace, an optional sign, digits
IsNumericText(s) ==
    LET u == Unsigned(Strip(s))
    IN  u # <<>> /\ \A i \in 1..Len(u) : IsDigit(u[i])

TextNumber(s) ==
    LET t == Strip(s)
        v == DigitsValue(Unsigned(t))
    IN  IF t[1] = "-" THEN 0 - v ELSE v

\* ------------------------------------------------------ double arithmetic
\* Python's float is the IEEE 754 double: 53 bits of mantissa, rounded to
\* nearest, ties to even.  A double is kept here as m * 2^e with
\* m < 2^53 a natural number of limbs of 15 bits, lowest limb first.
RECURSIVE Pow2(_)
Pow2(k) == IF k = 0 THEN 1 ELSE 2 * Pow2(k - 1)

Limb == Pow2(15)

RECURSIVE BitLen(_)
BitLen(n) == IF n = 0 THEN 0 ELSE 1 + BitLen(n \div 2)

RECURSIVE BigOf(_)
BigOf(n) == IF n = 0 THEN <<>> ELSE <<n % Limb>> \o BigOf(n \div Limb)

RECURSIVE BigInt(_)
BigInt(x) == IF x = <<>> THEN 0 ELSE x[1] + Limb * BigInt(Tail(x))

BigBits(x) == IF x = <<>> THEN 0
              ELSE 15 * (Len(x) - 1) + BitLen(x[Len(x)])

\* x * m + carry, for a factor m of one limb
RECURSIVE BigMul(_, _, _)
BigMul(x, m, carry) ==
    IF x = <<>> THEN BigOf(carry)
    ELSE <<(x[1] * m + carry) % Limb>>
         \o BigMul(Tail(x), m, (x[1] * m + carry) \div Limb)

\* One step of the long division: the limb t \div d before the quotient hq
\* of the higher limbs, and the rest t % d.
BigDivStep(hq, t, d) ==
    [q |-> IF hq = <<>> /\ t \div d = 0 THEN <<>> ELSE <<t \div d>> \o hq,
     r |-> t % d]

BigDivLimb(hi, limb, d) == BigDivStep(hi.q, hi.r * Limb + limb, d)

\* x divided by d < 2^16: the quotient q and the remainder r
RECURSIVE BigDivMod(_, _)
BigDivMod(x, d) ==
    IF x = <<>> THEN [q |-> <<>>, r |-> 0]
    ELSE BigDivLimb(BigDivMod(Tail(x), d), x[1], d)

RECURSIVE BigShl(_, _)
BigShl(x, s) == IF x = <<>> \/ s = 0 THEN x
                ELSE IF s >= 15 THEN <<0>> \o BigShl(x, s - 15)
                ELSE BigMul(x, Pow2(s), 0)

RECURSIVE BigShr(_, _)
BigShr(x, s) == IF x = <<>> \/ s = 0 THEN x
                ELSE IF s >= 15 THEN BigShr(Tail(x), s - 15)
                ELSE BigDivMod(x, Pow2(s)).q

\* x + y + carry, limb by limb
RECURSIVE BigAdd(_, _, _)
BigAddLimb(x, y, t) ==
    <<t % Limb>> \o BigAdd(IF x = <<>> THEN x ELSE Tail(x),
                          IF y = <<>> THEN y ELSE Tail(y),
                          t \div Limb)

BigAdd(x, y, carry) ==
    IF x = <<>> /\ y = <<>> THEN BigOf(carry)
    ELSE BigAddLimb(x, y, (IF x = <<>> THEN 0 ELSE x[1])
                          + (IF y = <<>> THEN 0 ELSE y[1]) + carry)

\* -1, 0 or 1 as x < y, x = y or x > y
RECURSIVE BigCmp(_, _)
BigCmp(x, y) ==
    IF Len(x) # Len(y) THEN (IF Len(x) < Len(y) THEN 0 - 1 ELSE 1)
    ELSE IF x = <<>> THEN 0
    ELSE IF x[Len(x)] # y[Len(y)]
         THEN (IF x[Len(x)] < y[Len(y)] THEN 0 - 1 ELSE 1)
         ELSE BigCmp(SubSeq(x, 1, Len(x) - 1), SubSeq(y, 1, Len(y) - 1))

RECURSIVE BigTrim(_)
BigTrim(x) == IF x # <<>> /\ x[Len(x)] = 0 THEN BigTrim(SubSeq(x, 1, Len(x) - 1))
              ELSE x

\* x - y - borrow for x >= y, limb by limb
RECURSIVE BigSubRaw(_, _, _)
BigSubLimb(x, y, t) ==
    <<t % Limb>> \o BigSubRaw(Tail(x), IF y = <<>> THEN y ELSE Tail(y),
                             IF t < 0 THEN 1 ELSE 0)

BigSubRaw(x, y, borrow) ==
    IF x = <<>> THEN <<>>
    ELSE BigSubLimb(x, y, x[1] - (IF y = <<>> THEN 0 ELSE y[1]) - borrow)

BigSub(x, y) == BigTrim(BigSubRaw(x, y, 0))

\* The quotient q of the 53 highest bits goes up by one when the rest is
\* more than a half, or a half and q is odd (ties to even).
RoundUp(q, e, rest) ==
    [m |-> IF rest > 0 \/ (rest = 0 /\ q[1] % 2 = 1) THEN BigAdd(q, <<1>>, 0)
           ELSE q,
     e |-> e]

RoundQuot(x, e, s, q) ==
    RoundUp(q, e + s, BigCmp(BigSub(x, BigShl(q, s)), BigShl(<<1>>, s - 1)))

RoundAt(x, e, s) == IF s <= 0 THEN [m |-> x, e |-> e]
                    ELSE RoundQuot(x, e, s, BigShr(x, s))

\* The double nearest to x * 2^e, ties to even.
Round53(x, e) == RoundAt(x, e, BigBits(x) - 53)

\* The quotient dm of a long division to 56 bits and more, with one more
\* bit that tells whether the division left a rest.
DoubleQuot(dm, e) == Round53(BigMul(dm.q, 2, IF dm.r = 0 THEN 0 ELSE 1), e)

\* n / float(d) for naturals n and d, 0 < d < 2^16
DoubleDiv(n, d) ==
    DoubleQuot(BigDivMod(BigShl(BigOf(n), 56 + BitLen(d)), d),
               0 - (57 + BitLen(d)))

\* x * k for a double x and a natural k of one limb
DoubleMul(x, k) == Round53(BigMul(x.m, k, 0), x.e)

\* K * 2^e + X * 2^e (neg) or K * 2^e - X * 2^e, cmp comparing K and X
DoubleSum(K, X, e, neg, cmp) ==
    [sign |-> IF neg \/ cmp >= 0 THEN 1 ELSE 0 - 1,
     d |-> Round53(IF neg THEN BigAdd(K, X, 0)
                   ELSE IF cmp >= 0 THEN BigSub(K, X)
                   ELSE BigSub(X, K), e)]

DoubleAligned(K, X, e, neg) == DoubleSum(K, X, e, neg, BigCmp(K, X))

\* k - x (neg = FALSE) or k + x (neg = TRUE) for a double x >= 0 and a
\* natural k: the sign and the double.
DoubleFrom(k, x, neg) ==
    IF x.e < 0 THEN DoubleAligned(BigShl(BigOf(k), 0 - x.e), x.m, x.e, neg)
    ELSE DoubleAligned(BigOf(k), BigShl(x.m, x.e), 0, neg)

\* int(x): the integer part, towards zero
DoubleInt(sx) ==
    sx.sign * BigInt(IF sx.d.e < 0 THEN BigShr(sx.d.m, 0 - sx.d.e)
                     ELSE BigShl(sx.d.m, sx.d.e))

\* ------------------------------------------------------------- raw values
\* What DataSource.run() hands back: a number, a text, None; or it raises.
Num(n) == [type |-> "num", n |-> n, s |-> <<>>]
Str(s) == [type |-> "str", n |-> 0, s |-> s]
None == [type |-> "none", n |-> 0, s |-> <<>>]
Raise == [type |-> "raise", n |-> 0, s |-> <<>>]

\* The outcome of an evaluation that raised.
Fault == [type |-> "fault", n |-> 0, s |-> <<>>]

\* No sample (a connection that has not called run()).
NoRaw == [type |-> "noraw", n |-> 0, s |-> <<>>]

\* str(value)
str(v) == CASE v.type = "num" -> IntText(v.n)
            [] v.type = "str" -> v.s
            [] OTHER -> <<"N", "o", "n", "e">>

SystemHealthy == <<"s", "y", "s", "t", "e", "m", " ", "h", "e", "a", "l", "t", "h", "y">>
SystemDegraded == <<"s", "y", "s", "t", "e", "m", " ", "d", "e", "g", "r", "a", "d", "e", "d">>
FileNumber == <<"5", "0", "0", "0", "\n">>

\* What run() can do, for the data source of a plugin: the values it can
\* return, and Raise.
Outcomes(source) ==
    CASE source = "numbers" -> {Num(5000), Num(8000), Raise}
      [] source = "any" -> {Num(5000), Num(8000), Num(0 - 700), Str(SystemHealthy),
                            Str(SystemDegraded), Str(FileNumber), None, Raise}

\* ------------------------------------------------------- rule evaluation
\* The result of a rule processor: an action token, None, or an exception.
Val(tok) == [kind |-> "val", tok |-> tok]
NoResult == [kind |-> "none", tok |-> ""]
Raised == [kind |-> "raised", tok |-> ""]

\* Python truthiness of a rule result: neither None nor the empty string.
Truthy(res) == res.kind = "val" /\ res.tok # ""

Metrics == {"r", "r + 1"}

\* eval(self.metric, {}, {'r': raw}); an error in the expression is raised.
evaluate_metric(metric, raw) ==
    CASE metric = "r" -> raw
      [] metric = "r + 1" -> IF raw.type = "num" THEN Num(raw.n + 1) ELSE Fault
      [] OTHER -> Fault

\* A pattern is a sequence of items: a literal character or ".*".
Lit(s) == [i \in 1..Len(s) |-> [k |-> "lit", c |-> s[i]]]
DotStar == <<[k |-> "dotstar", c |-> ""]>>

\* re.match(pattern, text): anchored at the start of the text, not at its
\* end; "." does not match a newline.
RECURSIVE Match(_, _)
Match(pat, s) ==
    IF pat = <<>> THEN TRUE
    ELSE IF pat[1].k = "dotstar"
         THEN \E n \in 0..Len(s) :
                  /\ \A i \in 1..n : s[i] # "\n"
                  /\ Match(Tail(pat), SubSeq(s, n + 1, Len(s)))
         ELSE /\ s # <<>>
              /\ s[1] = pat[1].c
              /\ Match(Tail(pat), Tail(s))

\* Mutant: re.search, which finds the pattern anywhere in the text.
RECURSIVE PatternScan_search(_, _, _)
PatternScan_search(rules, text, i) ==
    IF i > Len(rules) THEN NoResult
    ELSE IF \E n \in 0..Len(text) :
                Match(rules[i].pattern, SubSeq(text, n + 1, Len(text)))
         THEN Val(rules[i].action)
         ELSE PatternScan_search(rules, text, i + 1)

\* HeraldPatterns.process_rules: the first rule, in order, that matches.
RECURSIVE PatternScan(_, _, _)
PatternScan(rules, text, i) ==
    IF i > Len(rules) THEN NoResult
    ELSE IF Match(rules[i].pattern, text) THEN Val(rules[i].action)
         ELSE PatternScan(rules, text, i + 1)

HeraldPatterns_process_rules(rules, value) == PatternScan(rules, str(value), 1)

\* int(100 - ((value / float(threshold)) * 100)) for threshold > 0: the
\* division, the product and the difference are each rounded to a double.
Pct(value, threshold) ==
    DoubleInt(DoubleFrom(100,
                         DoubleMul(DoubleDiv(IF value < 0 THEN 0 - value
                                             ELSE value, threshold), 100),
                         value < 0))

Compare(value, op, threshold) ==
    CASE op = "==" -> value = threshold
      [] op = "!=" -> value # threshold
      [] op = "<" -> value < threshold
      [] op = ">" -> value > threshold

PctToken(pct, min_resp) ==
    IF pct <= 0 THEN Val(ToString(min_resp) \o "%")
    ELSE IF pct > 100 THEN Val("")
    ELSE Val(ToString(pct) \o "%")

PctResult(value, rule) ==
    IF rule.threshold = 0 THEN Raised
    ELSE PctToken(Pct(value, rule.threshold), rule.min_resp)

\* Mutant: the scan goes on after a satisfied rule, and the last one wins.
RECURSIVE ThresholdScan_last_wins(_, _, _)
ThresholdScan_last_wins(rules, value, i) ==
    IF i > Len(rules) THEN NoResult
    ELSE LET later == ThresholdScan_last_wins(rules, value, i + 1)
         IN  IF later.kind # "none" THEN later
             ELSE IF rules[i].action = "pct" THEN PctResult(value, rules[i])
             ELSE IF Compare(value, rules[i].op, rules[i].threshold)
                  THEN Val(rules[i].action)
                  ELSE NoResult

RECURSIVE ThresholdScan(_, _, _)
ThresholdScan(rules, value, i) ==
    IF i > Len(rules) THEN NoResult
    ELSE IF rules[i].action = "pct" THEN PctResult(value, rules[i])
         ELSE IF Compare(value, rules[i].op, rules[i].threshold)
              THEN Val(rules[i].action)
              ELSE ThresholdScan(rules, value, i + 1)

\* float(value) raises for None and for a text that is no number.
IsNumber(v) == v.type = "num" \/ (v.type = "str" /\ IsNumericText(v.s))

float(v) == IF v.type = "num" THEN v.n ELSE TextNumber(v.s)

HeraldThresholds_process_rules(rules, value) ==
    IF ~IsNumber(value) THEN Raised
    ELSE ThresholdScan(rules, float(value), 1)

\* HeraldBaseRules.evaluate, for the pattern rules (hp) and the threshold
\* rules (ht) of a plugin.
hp_evaluate(c, raw) ==
    LET m == evaluate_metric(c.patterns_metric, raw)
    IN  IF m.type = "fault" THEN Raised
        ELSE HeraldPatterns_process_rules(c.patterns, m)

ht_evaluate(c, raw) ==
    LET m == evaluate_metric(c.thresholds_metric, raw)
    IN  IF m.type = "fault" THEN Raised
        ELSE HeraldThresholds_process_rules(c.thresholds, m)

\* Mutant: a single result is followed by the separator.
Join_padded(toks) == IF Len(toks) = 0 THEN ""
                     ELSE IF Len(toks) = 1 THEN toks[1] \o " "
                     ELSE toks[1] \o " " \o toks[2]

\* ' '.join(state)
Join(toks) == IF Len(toks) = 0 THEN ""
              ELSE IF Len(toks) = 1 THEN toks[1]
              ELSE toks[1] \o " " \o toks[2]

\* HeraldPlugin.process_rules: hasattr(self, 'hp') / hasattr(self, 'ht')
\* hold exactly when the rule list of the configuration is not empty.
process_rules(c, raw) ==
    LET hasHp == c.patterns # <<>>
        hasHt == c.thresholds # <<>>
        pt == IF hasHp THEN hp_evaluate(c, raw) ELSE NoResult
        ht == IF hasHt THEN ht_evaluate(c, raw) ELSE NoResult
    IN  IF pt.kind = "raised" \/ ht.kind = "raised" THEN Raised
        ELSE Val(Join((IF Truthy(pt) THEN <<pt.tok>> ELSE <<>>)
                      \o (IF Truthy(ht) THEN <<ht.tok>> ELSE <<>>)))

\* ---------------------------------------------------------- configuration
Rule(action, op, threshold) ==
    [action |-> action, op |-> op, threshold |-> threshold, min_resp |-> 0]

\* ('pct', '==', th, min_resp): min_threshold_response defaults to 1.
PctRule(threshold, min_resp) ==
    [action |-> "pct", op |-> "==", threshold |-> threshold, min_resp |-> min_resp]

Pattern(action, pattern) == [action |-> action, pattern |-> pattern]

\* thresholds: [{up: '<7000'}, {drain: '>7000'}]
UpDrain == <<Rule("up", "<", 7000), Rule("drain", ">", 7000)>>

\* thresholds: [{pct: 7000}]
PctOnly == <<PctRule(7000, 1)>>

\* patterns: [{ready: '.*healthy.*'}]
Ready == <<Pattern("ready", DotStar \o Lit(<<"h", "e", "a", "l", "t", "h", "y">>) \o DotStar)>>

Noop(response) == IF response = "noop" THEN "" ELSE response

\* HeraldPlugin.__init__: the keyword arguments it keeps. 'noop' stands for
\* the empty response; thresholds or patterns must be given.
HeraldPlugin_init(kwargs) ==
    [interval |-> kwargs.interval,
     staleness_interval |-> kwargs.staleness_interval,
     stop_timeout |-> kwargs.stop_timeout,
     staleness_response |-> Noop(kwargs.staleness_response),
     default_response |-> Noop(kwargs.default_response),
     thresholds |-> kwargs.thresholds,
     patterns |-> kwargs.patterns,
     thresholds_metric |-> kwargs.thresholds_metric,
     patterns_metric |-> kwargs.patterns_metric,
     source |-> kwargs.source]

\* Mutant: the constructor without its assert on the two rule sets.
Constructible_always(kwargs) == TRUE

Constructible(kwargs) == kwargs.thresholds # <<>> \/ kwargs.patterns # <<>>

\* Configurations that vary the timing options, with one rule set.
TimingKwargs ==
    [interval : 0..MaxInterval,
     staleness_interval : (0 - 1)..MaxStaleness,
     stop_timeout : 1..MaxStopTimeout,
     staleness_response : {"", "noop", "down"},
     default_response : {""},
     thresholds : {UpDrain},
     patterns : {<<>>},
     thresholds_metric : {"r"},
     patterns_metric : {"r"},
     source : {"numbers"}]

\* Configurations that vary the options of stop(), with staleness detection
\* off.
StopKwargs ==
    {k \in TimingKwargs : k.staleness_interval = 0 /\ k.staleness_response = ""}

\* Configurations that vary the rules, with staleness detection off.
AllRulesKwargs ==
    [interval : {0, MaxInterval},
     staleness_interval : {0},
     stop_timeout : {1},
     staleness_response : {""},
     default_response : {"noop", "maint"},
     thresholds : {<<>>, UpDrain, PctOnly},
     patterns : {<<>>, Ready},
     thresholds_metric : Metrics,
     patterns_metric : Metrics,
     source : {"any"}]

\* Configurations that vary the interval, negative intervals included:
\* __init__ asks for an int and for no more.
ModeKwargs ==
    [interval : (0 - 1)..MaxInterval,
     staleness_interval : {0},
     stop_timeout : 1..MaxStopTimeout,
     staleness_response : {""},
     default_response : {""},
     thresholds : {UpDrain},
     patterns : {<<>>},
     thresholds_metric : {"r"},
     patterns_metric : {"r"},
     source : {"numbers"}]

RulesKwargs ==
    {k \in AllRulesKwargs :
        /\ k.thresholds = <<>> => k.thresholds_metric = "r"
        /\ k.patterns = <<>> => k.patterns_metric = "r"}

\* ---------------------------------------------------- threshold literals
\* A threshold rule as the configuration gives it: the action, the text
\* str(threshold) of its literal, and min_threshold_response (of 'pct').
RuleDict(action, literal, min_resp) ==
    [action |-> action, literal |-> literal, min_resp |-> min_resp]

OpChars == {"!", "<", ">", "="}

\* [0-9]+ at the head of s: the longest run of digits.
RECURSIVE DigitRun(_)
DigitRun(s) == IF s # <<>> /\ IsDigit(s[1]) THEN <<s[1]>> \o DigitRun(Tail(s))
               ELSE <<>>

\* re.match(op_regex, s) with op_regex = '^([!<>=]?)([0-9]+)': one optional
\* operator character, then digits; the expression has no '$', so what
\* follows the digits is not looked at.  m.groups(), or no match.
op_regex_match(s) ==
    LET op == IF s # <<>> /\ s[1] \in OpChars THEN s[1] ELSE ""
        rest == IF op = "" THEN s ELSE Tail(s)
        th == DigitRun(rest)
    IN  [matched |-> th # <<>>, op |-> op, th |-> th]

\* '' and '=' stand for '==', '!' for '!='.
ParseOp(op) == IF op = "" \/ op = "=" THEN "=="
               ELSE IF op = "!" THEN "!=" ELSE op

\* One tuple of _parsed_rules: (action, op, th) or ('pct', op, th, min_resp).
ParseRule(rule) ==
    LET m == op_regex_match(rule.literal)
    IN  [action |-> rule.action,
         op |-> ParseOp(m.op),
         threshold |-> DigitsValue(m.th),
         min_resp |-> IF rule.action = "pct" THEN rule.min_resp ELSE 0]

\* HeraldThresholds.__init__: every rule is parsed; with no match m is None
\* and m.groups() raises, which is raised again as the parsing error.
HeraldThresholds_init(rules) ==
    IF \E i \in 1..Len(rules) : ~op_regex_match(rules[i].literal).matched
    THEN [ok |-> FALSE, parsed |-> <<>>]
    ELSE [ok |-> TRUE, parsed |-> [i \in 1..Len(rules) |-> ParseRule(rules[i])]]

\* ---------------------------------------------------------- startup inputs
\* The threshold rules a configuration is made of: well-formed literals, the
\* percentage rule of 0 among them, and literals with a decimal point, a
\* trailing letter, a sign and a two-character operator.
ThresholdRuleDicts ==
    {RuleDict("up", <<"<", "7">>, 0),
     RuleDict("drain", <<">", "3">>, 0),
     RuleDict("down", <<"0">>, 0),
     RuleDict("maint", <<"!", "5">>, 0),
     RuleDict("ready", <<"=", "5">>, 0),
     RuleDict("pct", <<"7">>, 1),
     RuleDict("pct", <<"2", "0">>, 1),
     RuleDict("pct", <<"7", "0", "0", "0">>, 5),
     RuleDict("pct", <<"0">>, 1),
     RuleDict("down", <<"7", ".", "5">>, 0),
     RuleDict("up", <<"<", "7", "x">>, 0),
     RuleDict("up", <<"-", "5">>, 0),
     RuleDict("drain", <<">", "=", "7">>, 0)}

\* The pattern rules: '.*healthy.*', '1' and '.*5'.
PatternRuleDicts ==
    {Ready[1],
     Pattern("up", Lit(<<"1">>)),
     Pattern("drain", DotStar \o Lit(<<"5">>))}

SeqsUpTo(S, n) == UNION {[1..k -> S] : k \in 0..n}

\* The rule sets of a 'plugins' entry, with MaxRules rules at most.
StartupKwargs ==
    {k \in [thresholds : SeqsUpTo(ThresholdRuleDicts, MaxRules),
            patterns : SeqsUpTo(PatternRuleDicts, MaxRules)] :
        Len(k.thresholds) + Len(k.patterns) <= MaxRules}

\* The samples the rules are evaluated on.
Samples ==
    {Num(n) : n \in (0 - MaxValue)..(2 * MaxValue)}
    \cup {Num(7000), Num(3500), Num(0 - 700), Str(SystemHealthy),
          Str(SystemDegraded), Str(FileNumber), None}

\* The exit status of the interpreter: 0 for sys.exit() with no argument
\* and for a return of main(), 1 for an exception nobody catches.
exit_status(how) == IF how = "exception" THEN 1 ELSE 0

\* main() is past load_plugin: the plugin is constructed.
Started ==
    [pc |-> "started", import_ok |-> TRUE, registered |-> TRUE,
     kwargs |-> [thresholds |-> <<>>, patterns |-> <<>>],
     parsed_rules |-> <<>>, error |-> "", exit_code |-> 0,
     value |-> NoRaw, pt_result |-> NoResult, ht_result |-> NoResult,
     token |-> NoResult]

\* ------------------------------------------------------------------ state
VARIABLES
    cfg,              \* the plugin's options, fixed at construction
    now,              \* time.time(), in seconds
    phase,            \* main(): "constructed", then "serving"
    state,            \* HeraldPlugin.state: {'timestamp', 'value'}
    plugin_enabled,   \* HeraldBasePlugin.plugin_enabled
    g,                \* the greenlet of run_with_interval
    HERALD_STOPPING,  \* the module global of herald.py
    listening,        \* the StreamServer accepts connections
    sig,              \* the callers of stop_services / plugin.stop()
    conn,             \* the connections handled by handle_requests
    last_cycle,       \* history: what run() did in the last cycle of the greenlet
    last_write,       \* history: the value and time of the last write_state call
    stop_calls,       \* history: calls of plugin.stop()
    waits,            \* history: gevent.Timeout(stop_timeout) started
    kills,            \* history: calls of self.g.kill()
    closes,           \* history: calls of server.stop()
    wire,             \* history: what socket.send put on each connection
    proc              \* main() up to the constructed plugin, and the exit status

vars == <<cfg, now, phase, state, plugin_enabled, g, HERALD_STOPPING, listening,
          sig, conn, last_cycle, last_write, stop_calls, waits, kills, closes,
          wire, proc>>

Conns == 1..NumConns
Callers == 1..NumSignals

IdleConn == [pc |-> "idle", raw |-> NoRaw, token |-> ""]

IdleSig == [pc |-> "idle", deadline |-> 0, api |-> FALSE]

\* c is the next caller: the callers are numbered in the order of their calls.
NextCaller(c) ==
    /\ sig[c].pc = "idle"
    /\ \A d \in Callers : d < c => sig[d].pc # "idle"

InitPlant(kwargs) ==
    /\ Constructible(kwargs)
    /\ cfg = HeraldPlugin_init(kwargs)
    /\ now = 0
    /\ phase = "constructed"
    /\ state = [value |-> "", timestamp |-> 0]
    /\ plugin_enabled = TRUE
    /\ g = [pc |-> "none", wake |-> 0]
    /\ HERALD_STOPPING = FALSE
    /\ listening = FALSE
    /\ sig = [c \in Callers |-> IdleSig]
    /\ conn = [c \in Conns |-> IdleConn]
    /\ last_cycle = NoRaw
    /\ last_write = [value |-> "", timestamp |-> 0]
    /\ stop_calls = 0
    /\ waits = 0
    /\ kills = 0
    /\ closes = 0
    /\ wire = [c \in Conns |-> <<>>]

InitWith(kwargs) == InitPlant(kwargs) /\ proc = Started

Init == \E kwargs \in TimingKwargs : InitWith(kwargs)

InitRules == \E kwargs \in RulesKwargs : InitWith(kwargs)

InitStop == \E kwargs \in StopKwargs : InitWith(kwargs)

InitModes == \E kwargs \in ModeKwargs : InitWith(kwargs)

\* ------------------------------------------------------------- the plugin
\* Mutant: the value is written and the timestamp is left as it was.
write_state_keeps_timestamp(st, value, t) ==
    [value |-> value, timestamp |-> st.timestamp]

\* HeraldPlugin.write_state: the value and its timestamp, with no
\* suspension point between the two assignments.
write_state(st, value, t) == [value |-> value, timestamp |-> t]

read_state(st) == st.value

\* Mutant: the empty token is written as it is, with no default_response.
CycleOutcome_writes_empty(c, out) ==
    IF out.type = "raise" THEN Raised
    ELSE process_rules(c, out)

\* Mutant: the except clause writes default_response.
CycleOutcome_default_on_fault(c, out) ==
    IF out.type = "raise" THEN Val(c.default_response)
    ELSE LET r == process_rules(c, out)
         IN  IF r.kind = "raised" \/ r.tok = "" THEN Val(c.default_response)
             ELSE Val(r.tok)

\* The try block of run_with_interval on what run() did: the token it hands
\* to write_state, or Raised when run() or process_rules raised.
CycleOutcome(c, out) ==
    IF out.type = "raise" THEN Raised
    ELSE LET r == process_rules(c, out)
         IN  IF r.kind = "raised" THEN Raised
             ELSE IF r.tok # "" THEN Val(r.tok)
             ELSE Val(c.default_response)

\* Mutant: the loop goes on whatever the flag says.
LoopHead_forever(enabled) == "run"

\* while self.plugin_enabled: the head of the loop of run_with_interval.
LoopHead(enabled) == IF enabled THEN "run" ELSE "dead"

\* Mutant: stale from an age equal to staleness_interval on.
is_stale_at_interval(c, st, t) ==
    IF c.staleness_interval # 0
    THEN t - st.timestamp >= c.staleness_interval
    ELSE FALSE

is_stale(c, st, t) ==
    IF c.staleness_interval # 0
    THEN t - st.timestamp > c.staleness_interval
    ELSE FALSE

\* HeraldPlugin.respond after the inline run(): the token it returns.
respond(c, st, t) ==
    IF is_stale(c, st, t)
    THEN IF c.staleness_response # "" /\ c.staleness_response # "noop"
         THEN c.staleness_response
         ELSE ""
    ELSE read_state(st)

\* Mutant: the greenlet survives the kill.
kill_survived(task) == task

\* Greenlet.kill(): GreenletExit is thrown into the greenlet where it is
\* suspended; neither run_with_interval nor the plugins catch it.
kill(task) == [pc |-> "dead", wake |-> 0]

\* Mutant: stop_services without its latch.
stop_in_progress_never(latch) == FALSE

\* if not HERALD_STOPPING of stop_services
stop_in_progress(latch) == latch

\* Mutant: the greenlet yields to the hub and is due again at once.
gevent_sleep_yields(t, seconds) == [pc |-> "sleep", wake |-> t]

\* gevent.sleep(self.interval), the last statement of the loop body of
\* run_with_interval, after the try block and its except clause: the
\* greenlet is suspended, with a timer of the hub at seconds from now.
gevent_sleep(t, seconds) == [pc |-> "sleep", wake |-> t + seconds]

\* Mutant: the sleep is cut short, as if stop() woke the greenlet.
sleep_over_at_once(task, t) == task.pc = "sleep"

\* gevent.sleep(self.interval) returns: the timer of the sleep has expired.
\* Nothing else wakes the greenlet, which tests plugin_enabled only after.
sleep_over(task, t) == task.pc = "sleep" /\ task.wake <= t

\* Mutant: the greenlet is spawned for a positive interval only.
start_when_positive(c, task) ==
    IF c.interval > 0 THEN [pc |-> "spawned", wake |-> 0] ELSE task

\* HeraldPlugin.start: if not self.interval == 0, gevent.spawn of
\* run_with_interval.
start(c, task) ==
    IF c.interval # 0 THEN [pc |-> "spawned", wake |-> 0] ELSE task

\* ---------------------------------------------------------------- actions
\* main(): start_plugin, start_server, setup_handlers, then gevent.wait().
main ==
    /\ phase = "constructed"
    /\ phase' = "serving"
    /\ g' = start(cfg, g)
    /\ listening' = TRUE
    /\ UNCHANGED <<proc, wire, cfg, now, state, plugin_enabled, HERALD_STOPPING, sig, conn,
                   last_cycle, last_write, stop_calls, waits, kills, closes>>

\* The greenlet starts, or wakes from gevent.sleep(interval), tests
\* plugin_enabled and calls run(), where it may block.
TaskRun ==
    /\ \/ g.pc = "spawned"
       \/ sleep_over(g, now)
    /\ g' = [pc |-> LoopHead(plugin_enabled), wake |-> 0]
    /\ UNCHANGED <<proc, wire, cfg, now, phase, state, plugin_enabled, HERALD_STOPPING,
                   listening, sig, conn, last_cycle, last_write, stop_calls,
                   waits, kills, closes>>

\* run() comes back (with a value or an exception); the rest of the try
\* block, the except clause and the call of gevent.sleep(interval).
Cycle(out) ==
    /\ g.pc = "run"
    /\ LET res == CycleOutcome(cfg, out)
       IN  /\ state' = IF res.kind = "val" THEN write_state(state, res.tok, now)
                       ELSE state
           /\ last_write' = IF res.kind = "val"
                            THEN [value |-> res.tok, timestamp |-> now]
                            ELSE last_write
    /\ last_cycle' = out
    /\ g' = gevent_sleep(now, cfg.interval)
    /\ UNCHANGED <<proc, wire, cfg, now, phase, plugin_enabled, HERALD_STOPPING, listening,
                   sig, conn, stop_calls, waits, kills, closes>>

\* The hub has something to run: the greenlet that was spawned, the end of
\* its sleep, a join whose greenlet is dead, or the Timeout of a stop().  The
\* hub runs what is due before it waits any longer.
TimerDue ==
    \/ g.pc = "spawned"
    \/ sleep_over(g, now)
    \/ \E c \in Callers : sig[c].pc = "join" /\ g.pc = "dead"
    \/ \E c \in Callers : sig[c].pc = "join" /\ sig[c].deadline <= now

Tick ==
    /\ now < MaxTime
    /\ ~TimerDue
    /\ now' = now + 1
    /\ UNCHANGED <<proc, wire, cfg, phase, state, plugin_enabled, g, HERALD_STOPPING,
                   listening, sig, conn, last_cycle, last_write, stop_calls,
                   waits, kills, closes>>

\* Mutant: stop_services stops the server before it waits for the plugin.
StopEnter_closes_first(c, api) ==
    LET waiting == cfg.interval # 0 /\ g.pc # "dead"
        serverStop == ~api
    IN  /\ stop_calls' = stop_calls + 1
        /\ plugin_enabled' = IF cfg.interval = 0 THEN plugin_enabled ELSE FALSE
        /\ waits' = IF cfg.interval = 0 THEN waits ELSE waits + 1
        /\ sig' = [sig EXCEPT ![c] =
                      IF waiting
                      THEN [pc |-> "join", deadline |-> now + cfg.stop_timeout, api |-> api]
                      ELSE [pc |-> "done", deadline |-> 0, api |-> api]]
        /\ closes' = IF serverStop THEN closes + 1 ELSE closes
        /\ listening' = IF serverStop THEN FALSE ELSE listening

\* HeraldPlugin.stop() up to self.g.join(); api tells a direct call from a
\* call by stop_services, which goes on to server.stop().
StopEnter(c, api) ==
    LET waiting == cfg.interval # 0 /\ g.pc # "dead"
        serverStop == ~waiting /\ ~api
    IN  /\ stop_calls' = stop_calls + 1
        /\ plugin_enabled' = IF cfg.interval = 0 THEN plugin_enabled ELSE FALSE
        /\ waits' = IF cfg.interval = 0 THEN waits ELSE waits + 1
        /\ sig' = [sig EXCEPT ![c] =
                      IF waiting
                      THEN [pc |-> "join", deadline |-> now + cfg.stop_timeout, api |-> api]
                      ELSE [pc |-> "done", deadline |-> 0, api |-> api]]
        /\ closes' = IF serverStop THEN closes + 1 ELSE closes
        /\ listening' = IF serverStop THEN FALSE ELSE listening

\* stop() after the join: the caller goes on, stop_services to server.stop().
StopLeave(c) ==
    /\ sig' = [sig EXCEPT ![c].pc = "done", ![c].deadline = 0]
    /\ closes' = IF sig[c].api THEN closes ELSE closes + 1
    /\ listening' = IF sig[c].api THEN listening ELSE FALSE

\* SIGINT or SIGTERM: gevent runs stop_services(server, plugin).  The clock
\* of the model ends at MaxTime: a stop() begins only while its Timeout can
\* still expire.
Signal(c) ==
    /\ phase = "serving"
    /\ NextCaller(c)
    /\ now + cfg.stop_timeout <= MaxTime
    /\ IF ~stop_in_progress(HERALD_STOPPING)
       THEN /\ HERALD_STOPPING' = TRUE
            /\ StopEnter(c, FALSE)
       ELSE /\ sig' = [sig EXCEPT ![c].pc = "ignored"]
            /\ UNCHANGED <<HERALD_STOPPING, plugin_enabled, stop_calls, waits,
                           closes, listening>>
    /\ UNCHANGED <<proc, wire, cfg, now, phase, state, g, conn, last_cycle, last_write, kills>>

\* plugin.stop() called by another caller than stop_services.
DirectStop(c) ==
    /\ phase = "serving"
    /\ NextCaller(c)
    /\ now + cfg.stop_timeout <= MaxTime
    /\ StopEnter(c, TRUE)
    /\ UNCHANGED <<proc, wire, cfg, now, phase, state, g, HERALD_STOPPING, conn, last_cycle,
                   last_write, kills>>

\* self.g.join() returns: the greenlet has left its loop.
JoinReturn(c) ==
    /\ sig[c].pc = "join"
    /\ g.pc = "dead"
    /\ StopLeave(c)
    /\ UNCHANGED <<proc, wire, cfg, now, phase, state, plugin_enabled, g, HERALD_STOPPING,
                   conn, last_cycle, last_write, stop_calls, waits, kills>>

\* gevent.Timeout is raised in the join: self.g.kill().
JoinTimeout(c) ==
    /\ sig[c].pc = "join"
    /\ now >= sig[c].deadline
    /\ kills' = kills + 1
    /\ g' = kill(g)
    /\ StopLeave(c)
    /\ UNCHANGED <<proc, wire, cfg, now, phase, state, plugin_enabled, HERALD_STOPPING,
                   conn, last_cycle, last_write, stop_calls, waits>>

\* The answer of respond() once run() is behind it, as handle_requests
\* gets it.
Sent(raw) ==
    [pc |-> "sent", raw |-> raw, token |-> respond(cfg, state, now)]

\* A connection is accepted: handle_requests calls plugin.respond(), which
\* in synchronous mode first calls run().
Accept(c) ==
    /\ listening
    /\ conn[c].pc = "idle"
    /\ conn' = [conn EXCEPT ![c] =
                   IF cfg.interval = 0 THEN [IdleConn EXCEPT !.pc = "run"]
                   ELSE Sent(NoRaw)]
    /\ wire' = [wire EXCEPT ![c] = <<>>]
    /\ UNCHANGED <<proc, cfg, now, phase, state, plugin_enabled, g, HERALD_STOPPING,
                   listening, sig, last_cycle, last_write, stop_calls, waits,
                   kills, closes>>

\* The inline run() of respond() comes back: its value is dropped, an
\* exception leaves respond() and handle_requests.
SyncRun(c, out) ==
    /\ conn[c].pc = "run"
    /\ conn' = [conn EXCEPT ![c] =
                   IF out.type = "raise" THEN [IdleConn EXCEPT !.pc = "failed"]
                   ELSE Sent(out)]
    /\ UNCHANGED <<proc, wire, cfg, now, phase, state, plugin_enabled, g, HERALD_STOPPING,
                   listening, sig, last_cycle, last_write, stop_calls, waits,
                   kills, closes>>

\* str(state) + "\n" of handle_requests: a str object.
Line(token) == [type |-> "str", s |-> token \o "\n"]

\* socket.send(data) of a gevent socket: what it puts on the wire.  It takes
\* bytes; for a str object it raises TypeError and sends nothing.
socket_send(data) == IF data.type = "bytes" THEN <<data.s>> ELSE <<>>

\* The rest of handle_requests: socket.send(str(state) + "\n") after
\* respond() has returned, or nothing after respond() has raised; then the
\* handler is over and StreamServer closes the connection.
Close(c) ==
    /\ conn[c].pc \in {"sent", "failed"}
    /\ wire' = [wire EXCEPT ![c] =
                   IF conn[c].pc = "sent" THEN socket_send(Line(conn[c].token))
                   ELSE <<>>]
    /\ conn' = [conn EXCEPT ![c] = IdleConn]
    /\ UNCHANGED <<proc, cfg, now, phase, state, plugin_enabled, g, HERALD_STOPPING,
                   listening, sig, last_cycle, last_write, stop_calls, waits,
                   kills, closes>>

Next ==
    \/ main
    \/ TaskRun
    \/ \E out \in Outcomes(cfg.source) : Cycle(out)
    \/ Tick
    \/ \E c \in Callers : Signal(c)
    \/ \E c \in Callers : JoinReturn(c)
    \/ \E c \in Callers : JoinTimeout(c)
    \/ \E c \in Conns : Accept(c)
    \/ \E c \in Conns : \E out \in Outcomes(cfg.source) : SyncRun(c, out)
    \/ \E c \in Conns : Close(c)

NextApi ==
    \/ Next
    \/ \E c \in Callers : DirectStop(c)

Spec == Init /\ [][Next]_vars

SpecRules == InitRules /\ [][Next]_vars

SpecApi == Init /\ [][NextApi]_vars

SpecModes == InitModes /\ [][Next]_vars

\* Time passes, and the hub runs every timer and every joiner that is due.
Fairness ==
    /\ WF_vars(Tick)
    /\ WF_vars(TaskRun)
    /\ \A c \in Callers : WF_vars(JoinReturn(c)) /\ WF_vars(JoinTimeout(c))

FairSpec == InitStop /\ [][Next]_vars /\ Fairness

\* ---------------------------------------------------------------- startup
\* main() from load_all_plugins to the constructed plugin, the rules of the
\* plugin on one sample, and the end of the process.  The rule processors
\* keep nothing between two samples, so one sample is followed per run.
plant == <<cfg, now, phase, state, plugin_enabled, g, HERALD_STOPPING,
           listening, sig, conn, last_cycle, last_write, stop_calls, waits,
           kills, closes, wire>>

\* The process ends: with an exception of the given type that nobody
\* catches, or in sys.exit().
Exited(p, error, how) ==
    [p EXCEPT !.pc = "exited", !.error = error, !.exit_code = exit_status(how)]

\* The configuration of the plugin main() starts with.
InitStartup ==
    /\ InitPlant(CHOOSE k \in StopKwargs : k.interval = 0 /\ k.stop_timeout = 1)
    /\ \E import_ok \in BOOLEAN, registered \in BOOLEAN, kwargs \in StartupKwargs :
          proc = [Started EXCEPT !.pc = "load_all_plugins",
                                 !.import_ok = import_ok,
                                 !.registered = registered,
                                 !.kwargs = kwargs]

\* load_all_plugins: imp.load_source of a plugin file raises, and the
\* except clause calls sys.exit() with no argument; or every file loads.
load_all_plugins ==
    /\ proc.pc = "load_all_plugins"
    /\ proc' = IF proc.import_ok THEN [proc EXCEPT !.pc = "load_plugin"]
               ELSE Exited(proc, "SystemExit", "sys.exit()")
    /\ UNCHANGED plant

\* load_plugin: plugins_list.get(name) gives None for a name that is not
\* registered (dict.get raises no KeyError) and the call of None raises
\* TypeError; else HeraldPlugin.__init__ runs: its assert on the two rule
\* sets, then HeraldThresholds.__init__ on the threshold rules.
load_plugin ==
    /\ proc.pc = "load_plugin"
    /\ LET ht == HeraldThresholds_init(proc.kwargs.thresholds)
       IN  proc' =
               IF ~proc.registered THEN Exited(proc, "TypeError", "exception")
               ELSE IF ~Constructible(proc.kwargs)
                    THEN Exited(proc, "AssertionError", "exception")
               ELSE IF ~ht.ok THEN Exited(proc, "Exception", "exception")
               ELSE [proc EXCEPT !.pc = "constructed", !.parsed_rules = ht.parsed]
    /\ UNCHANGED plant

\* The rules of the constructed plugin, as process_rules reads them.
RuleConfig(p) ==
    [patterns |-> p.kwargs.patterns, thresholds |-> p.parsed_rules,
     patterns_metric |-> "r", thresholds_metric |-> "r"]

\* HeraldPlugin.process_rules(result) on the sample raw: the result of the
\* pattern rules, of the threshold rules, and the token.
Evaluate(raw) ==
    /\ proc.pc = "constructed"
    /\ LET c == RuleConfig(proc)
       IN  proc' = [proc EXCEPT
                       !.pc = "evaluated",
                       !.value = raw,
                       !.pt_result = IF c.patterns # <<>> THEN hp_evaluate(c, raw)
                                     ELSE NoResult,
                       !.ht_result = IF c.thresholds # <<>> THEN ht_evaluate(c, raw)
                                     ELSE NoResult,
                       !.token = process_rules(c, raw)]
    /\ UNCHANGED plant

\* gevent.wait() returns after the shutdown and main() returns.
Shutdown ==
    /\ proc.pc \in {"constructed", "evaluated"}
    /\ proc' = Exited(proc, "", "return")
    /\ UNCHANGED plant

NextStartup ==
    \/ load_all_plugins
    \/ load_plugin
    \/ \E raw \in Samples : Evaluate(raw)
    \/ Shutdown

SpecStartup == InitStartup /\ [][NextStartup]_vars

\* ------------------------------------------------------------------ claims
\* A step in which handle_requests gets the token of respond() for c.
Answers(c) == conn[c].pc # "sent" /\ conn'[c].pc = "sent"

\* A step that is the end of one cycle of run_with_interval.
CycleEnds == g.pc = "run" /\ g'.pc = "sleep"

\* The percentage rule is the first threshold rule and gives more than 100
\* for the metric, and no pattern matches.
PctNoop(c, out) ==
    /\ out.type = "num"
    /\ c.thresholds # <<>>
    /\ c.thresholds[1].action = "pct"
    /\ c.thresholds_metric = "r"
    /\ Pct(out.n, c.thresholds[1].threshold) > 100
    /\ c.patterns # <<>> => hp_evaluate(c, out).kind = "none"

\* C1: in synchronous mode with staleness detection off, respond() answers
\* with the token of the value run() has just returned: what a sampling
\* cycle would write for it, the rule token or default_response.  (The
\* percentage above 100 is left to C10.)
C1_SyncRespondAnswersTheSample ==
    \A c \in Conns :
        (/\ cfg.interval = 0
         /\ cfg.staleness_interval = 0
         /\ conn[c].pc = "sent"
         /\ CycleOutcome(cfg, conn[c].raw).kind = "val"
         /\ ~PctNoop(cfg, conn[c].raw))
        => /\ conn[c].token = CycleOutcome(cfg, conn[c].raw).tok
           /\ state.value = conn[c].token

\* C2: respond() never raises because of a fault of the data source or of
\* the rules, in background mode and in synchronous mode.
C2_RespondNeverRaises == \A c \in Conns : conn[c].pc # "failed"

\* The faults of a cycle: run() raises, a metric expression raises, or the
\* threshold metric is no number.
FaultyCycle(c, out) ==
    \/ out.type = "raise"
    \/ /\ c.patterns # <<>>
       /\ evaluate_metric(c.patterns_metric, out).type = "fault"
    \/ /\ c.thresholds # <<>>
       /\ \/ evaluate_metric(c.thresholds_metric, out).type = "fault"
          \/ ~IsNumber(evaluate_metric(c.thresholds_metric, out))

\* C3: a background cycle in which run() raises or the evaluation of the
\* rules faults leaves State as it was, value and timestamp, and goes on to
\* sleep for the interval.
C3_FaultyCycleKeepsState ==
    [][(CycleEnds /\ FaultyCycle(cfg, last_cycle'))
       => /\ state' = state
          /\ g' = [pc |-> "sleep", wake |-> now + cfg.interval]]_vars

\* A cycle has faulted on a text that is no number, after an earlier cycle
\* wrote a token, and the task sleeps.
C3_Witness ==
    /\ last_cycle.type = "str"
    /\ cfg.patterns = <<>>
    /\ FaultyCycle(cfg, last_cycle)
    /\ state.value = "up"
    /\ g.pc = "sleep"

\* C4: a cycle in which run() returns None, its failure indicator, writes
\* nothing, whatever rules are configured.
C4_NoneSkipsTheWrite ==
    [][(CycleEnds /\ last_cycle'.type = "none") => state' = state]_vars

\* C5 as claimed: the staleness response exactly when staleness_interval > 0
\* and the State is older than staleness_interval.
C5_StaleWhenPositiveInterval ==
    [][\A c \in Conns :
          Answers(c) =>
              conn'[c].token =
                  IF /\ cfg.staleness_interval > 0
                     /\ now - state.timestamp > cfg.staleness_interval
                  THEN cfg.staleness_response
                  ELSE state.value]_vars

\* C5, amended: respond() answers with staleness_response exactly when
\* staleness_interval is not 0 and now - State.timestamp is strictly greater
\* than staleness_interval, and with the cached State.value in every other
\* case.
C5_StaleWhenNonZeroInterval ==
    [][\A c \in Conns :
          Answers(c) =>
              conn'[c].token =
                  IF /\ cfg.staleness_interval # 0
                     /\ now - state.timestamp > cfg.staleness_interval
                  THEN cfg.staleness_response
                  ELSE state.value]_vars

\* A connection got the staleness response for a State one second older
\* than a positive staleness_interval, in background mode.
C5_Witness ==
    \E c \in Conns :
        /\ conn[c].pc = "sent"
        /\ conn[c].token = "down"
        /\ cfg.interval # 0
        /\ cfg.staleness_interval > 0
        /\ now - state.timestamp = cfg.staleness_interval + 1

\* C6: the State that respond() reads is always the value and the timestamp
\* of one write: the initial State or that of the last cycle that wrote.
C6_StateIsOneWrite ==
    /\ state.value = last_write.value
    /\ state.timestamp = last_write.timestamp
    /\ state.timestamp <= now

\* A connection was answered from the State a cycle wrote, while the next
\* cycle is inside run().
C6_Witness ==
    \E c \in Conns :
        /\ conn[c].pc = "sent"
        /\ conn[c].token = "drain"
        /\ state = [value |-> "drain", timestamp |-> 1]
        /\ g.pc = "run"

\* C7: over any sequence of stop() calls there is one bounded wait and at
\* most one forced termination.
C7_StopIsIdempotent == waits <= 1 /\ kills <= 1

\* C8: stop_services calls plugin.stop() and server.stop() once each, on the
\* first signal; a later signal finds the latch set and does nothing; the
\* latch is never reset.
C8_ShutdownOnce ==
    /\ [](/\ stop_calls <= 1
          /\ closes <= 1
          /\ stop_calls = 0 <=> ~HERALD_STOPPING
          /\ \A c \in Callers :
                /\ sig[c].pc = "done" => stop_calls = 1 /\ closes = 1 /\ ~listening
                /\ sig[c].pc = "join" => stop_calls = 1 /\ closes = 0
                /\ sig[c].pc # "idle" => HERALD_STOPPING)
    /\ [][HERALD_STOPPING => HERALD_STOPPING']_vars

\* A second signal was ignored while the first handler waits in stop().
C8_Witness ==
    \E c, d \in Callers : sig[c].pc = "join" /\ sig[d].pc = "ignored"

\* C9: stop() waits only in background mode, with the plugin disabled and
\* for stop_timeout at most; it always returns, and then the greenlet is
\* gone: it left its loop or it was killed.
C9_StopReturns ==
    /\ [](\A c \in Callers :
             /\ sig[c].pc = "join" =>
                   /\ cfg.interval # 0
                   /\ ~plugin_enabled
                   /\ now <= sig[c].deadline
                   /\ sig[c].deadline <= now + cfg.stop_timeout
             /\ sig[c].pc = "done" => g.pc \in {"none", "dead"})
    /\ [](cfg.interval = 0 => waits = 0 /\ kills = 0 /\ g.pc = "none")
    /\ \A c \in Callers : (sig[c].pc = "join") ~> (sig[c].pc = "done")

\* stop() has returned after it killed the greenlet.
C9_Witness ==
    \E c \in Callers : sig[c].pc = "done" /\ kills = 1 /\ g.pc = "dead"

\* C10: a cycle whose percentage rule gives more than 100, with no pattern
\* matched, writes the empty token, whatever default_response is.
C10_PctNoopIsWritten ==
    [][(CycleEnds /\ PctNoop(cfg, last_cycle')) => state'.value = ""]_vars

\* The rules have been evaluated on a number, and the first threshold rule
\* is a percentage rule with threshold T > 0: that rule gives the result.
PctEvaluated ==
    /\ proc.pc = "evaluated"
    /\ IsNumber(proc.value)
    /\ proc.parsed_rules # <<>>
    /\ proc.parsed_rules[1].action = "pct"
    /\ proc.parsed_rules[1].threshold > 0

\* C11: for a percentage rule (threshold T > 0, minimum response m) and a
\* number v, with x = 100 - (v / T) * 100, that is x * T = 100 * T - 100 * v:
\* the result is "<m>%" when the truncated x is <= 0 (x < 1), "" when it is
\* > 100 (x >= 101), and "<pct>%" with the one pct of 1..100 such that
\* pct <= x < pct + 1 in every other case.  With T = 7000: 7000 gives
\* "<m>%", 3500 gives "50%", -700 gives "".
C11_PercentageRule ==
    PctEvaluated =>
        LET T == proc.parsed_rules[1].threshold
            m == proc.parsed_rules[1].min_resp
            v == float(proc.value)
            xT == 100 * T - 100 * v
            r == proc.ht_result
        IN  /\ IF xT < T THEN r = Val(ToString(m) \o "%")
               ELSE IF xT >= 101 * T THEN r = Val("")
               ELSE \E pct \in 1..100 :
                        /\ pct * T <= xT
                        /\ xT < (pct + 1) * T
                        /\ r = Val(ToString(pct) \o "%")
            /\ (T = 7000 /\ v = 7000) => r = Val(ToString(m) \o "%")
            /\ (T = 7000 /\ v = 3500) => r = Val("50%")
            /\ (T = 7000 /\ v = 0 - 700) => r = Val("")

\* A threshold literal as the specification has it: one optional operator
\* character, then digits to the end.
WellFormed(literal) ==
    LET digits == IF literal # <<>> /\ literal[1] \in OpChars THEN Tail(literal)
                  ELSE literal
    IN  digits # <<>> /\ \A i \in 1..Len(digits) : IsDigit(digits[i])

\* The number v satisfies the comparison a well-formed rule is configured
\* with: '<7', '>7', '!7', '=7' or 7.
Satisfies(v, rule) ==
    LET op == rule.literal[1]
        n == DigitsValue(IF op \in OpChars THEN Tail(rule.literal) ELSE rule.literal)
    IN  CASE op = "<" -> v < n
          [] op = ">" -> v > n
          [] op = "!" -> v # n
          [] OTHER -> v = n

\* The threshold rules, all of them well-formed comparison rules, have been
\* evaluated on a number.
ComparisonsEvaluated ==
    /\ proc.pc = "evaluated"
    /\ IsNumber(proc.value)
    /\ proc.kwargs.thresholds # <<>>
    /\ \A i \in 1..Len(proc.kwargs.thresholds) :
          /\ proc.kwargs.thresholds[i].action # "pct"
          /\ WellFormed(proc.kwargs.thresholds[i].literal)

\* C12: for a set of comparison rules and a number, the threshold result is
\* the action of the first rule, in configured order, whose comparison the
\* number satisfies, whether later rules are satisfied or not, and it is
\* absent when the number satisfies no rule.
C12_FirstSatisfiedRuleWins ==
    ComparisonsEvaluated =>
        LET rules == proc.kwargs.thresholds
            v == float(proc.value)
            hits == {i \in 1..Len(rules) : Satisfies(v, rules[i])}
        IN  IF hits = {} THEN proc.ht_result = NoResult
            ELSE \E i \in hits :
                    /\ \A j \in hits : i <= j
                    /\ proc.ht_result = Val(rules[i].action)

\* 5 satisfies both '<7' and '>3': the first of the two, 'up', is the result.
C12_Witness ==
    /\ ComparisonsEvaluated
    /\ Len(proc.kwargs.thresholds) = 2
    /\ proc.kwargs.thresholds[1] = RuleDict("up", <<"<", "7">>, 0)
    /\ proc.kwargs.thresholds[2] = RuleDict("drain", <<">", "3">>, 0)
    /\ proc.value = Num(5)
    /\ proc.ht_result = Val("up")

\* The pattern consists of literal characters only.
IsLiteral(pattern) == \A i \in 1..Len(pattern) : pattern[i].k = "lit"

\* The text begins with the characters of a literal pattern.
BeginsWith(text, pattern) ==
    /\ Len(pattern) <= Len(text)
    /\ \A i \in 1..Len(pattern) : text[i] = pattern[i].c

\* The characters lit stand in the text one after another, with no newline
\* before them ('.' matches no newline).
Holds(text, lit) ==
    \E n \in 0..(Len(text) - Len(lit)) :
        /\ \A i \in 1..Len(lit) : text[n + i] = lit[i]
        /\ \A i \in 1..n : text[i] # "\n"

\* The pattern, one of '.*healthy.*', '1' and '.*5', matches the text from
\* its first character on.
MatchesAtStart(text, pattern) ==
    IF IsLiteral(pattern) THEN BeginsWith(text, pattern)
    ELSE Holds(text, [i \in 1..(Len(pattern) - (IF pattern[Len(pattern)].k = "dotstar" THEN 2 ELSE 1)) |->
                         pattern[i + 1].c])

\* The pattern rules have been evaluated on a sample.
PatternsEvaluated ==
    /\ proc.pc = "evaluated"
    /\ proc.kwargs.patterns # <<>>

\* C13: for a set of pattern rules and a metric value, the pattern result is
\* the action of the first rule, in configured order, whose pattern matches
\* str(value) from its first character on (the pattern need not reach the
\* end of the text), and it is absent when no pattern matches.
C13_FirstMatchingPatternWins ==
    PatternsEvaluated =>
        LET rules == proc.kwargs.patterns
            text == str(proc.value)
            hits == {i \in 1..Len(rules) : MatchesAtStart(text, rules[i].pattern)}
        IN  IF hits = {} THEN proc.pt_result = NoResult
            ELSE \E i \in hits :
                    /\ \A j \in hits : i <= j
                    /\ proc.pt_result = Val(rules[i].action)

\* '.*5' and '1' both match "15": the first of the two, 'drain', is the
\* result; and '1' alone matches "15" at its start.
C13_Witness ==
    /\ PatternsEvaluated
    /\ Len(proc.kwargs.patterns) = 2
    /\ proc.kwargs.patterns[1].action = "drain"
    /\ proc.kwargs.patterns[2].action = "up"
    /\ proc.value = Num(15)
    /\ proc.pt_result = Val("drain")

\* A step in which the handling of connection c ends and it is closed.
Closes(c) == conn[c].pc \in {"sent", "failed"} /\ conn'[c].pc = "idle"

\* C14: every accepted connection gets the token of one respond() call,
\* and when it is closed exactly one line has been written to it: that
\* token and a newline.
C14_OneLinePerConnection ==
    [][\A c \in Conns :
          Closes(c) => /\ conn[c].pc = "sent"
                       /\ wire'[c] = <<conn[c].token \o "\n">>]_vars

\* C15: a plugin is constructed only from threshold literals that are an
\* integer after one optional operator character; a literal with trailing
\* characters, a decimal point, a sign or a two-character operator is
\* rejected by the constructor.
C15_MalformedLiteralRejected ==
    proc.pc \in {"constructed", "evaluated"} =>
        \A i \in 1..Len(proc.kwargs.thresholds) :
            WellFormed(proc.kwargs.thresholds[i].literal)

\* The configuration gives no threshold rule and no pattern rule.
NoRules == proc.kwargs.thresholds = <<>> /\ proc.kwargs.patterns = <<>>

\* C16: the constructor called with both rule sets empty fails with an
\* error that ends the process, so a constructed plugin has at least one
\* rule.
C16_NoRulesIsFatal ==
    /\ [](proc.pc \in {"constructed", "evaluated"} => ~NoRules)
    /\ [][(proc.pc = "load_plugin" /\ proc.registered /\ NoRules)
          => /\ proc'.pc = "exited"
             /\ proc'.error = "AssertionError"
             /\ proc'.exit_code # 0]_vars

\* The process has ended on the assert of the constructor.
C16_Witness ==
    /\ proc.pc = "exited"
    /\ proc.error = "AssertionError"
    /\ proc.registered
    /\ NoRules

\* C17: there are two different exit codes, neither of them 0, one for a
\* plugin file that fails to load and one for a plugin name with no
\* registered class; a clean shutdown ends with 0.
C17_ExitCodes ==
    \E load, missing \in 1..255 :
        /\ load # missing
        /\ proc.pc = "exited" =>
              /\ ~proc.import_ok => proc.exit_code = load
              /\ (proc.import_ok /\ ~proc.registered) => proc.exit_code = missing
              /\ proc.error = "" => proc.exit_code = 0

Present(res) == res.kind = "val" /\ res.tok # ""

\* C19: the token is the pattern result and the threshold result, each only
\* when present, in that order and joined by one space: "<pattern>
\* <threshold>" for both, the one result alone, with no space before or
\* after it, for one, and empty for none.
C19_TokenJoinsResults ==
    (proc.pc = "evaluated" /\ proc.token.kind = "val") =>
        LET pt == proc.pt_result
            ht == proc.ht_result
        IN  proc.token.tok =
                IF Present(pt) /\ Present(ht) THEN pt.tok \o " " \o ht.tok
                ELSE IF Present(pt) THEN pt.tok
                ELSE IF Present(ht) THEN ht.tok
                ELSE ""

\* The pattern '.*5' and the threshold '<7' on the sample 5: "drain up".
C19_Witness ==
    /\ proc.pc = "evaluated"
    /\ proc.pt_result = Val("drain")
    /\ proc.ht_result = Val("up")
    /\ proc.token = Val("drain up")

\* A step in which start() acts: main goes from the constructed plugin to
\* serving.
Starts == phase = "constructed" /\ phase' = "serving"

\* A step after which respond() is inside run() for a connection, or has
\* left it with an exception.
RespondRuns == \E c \in Conns : conn'[c].pc \in {"run", "failed"}

\* C20 as claimed: with interval > 0 respond() never calls run() and never
\* modifies the State, sampling and State writes are done by the background
\* task only, and start() launches that task when interval > 0 and in no
\* other case.
C20_TaskOnlyWhenPositiveInterval ==
    [][/\ cfg.interval > 0 => ~RespondRuns
       /\ (cfg.interval > 0 /\ (state' # state \/ last_cycle' # last_cycle))
              => CycleEnds
       /\ Starts => (g'.pc = "spawned" <=> cfg.interval > 0)
       /\ g'.pc # "none" => cfg.interval > 0]_vars

\* C20, amended: with an interval that is not 0 respond() never calls run()
\* and never modifies the State, sampling and State writes are done by the
\* background task only, and start() launches that task when the interval
\* is not 0, negative intervals included, and none when it is 0.
C20_TaskOnlyWhenNonZeroInterval ==
    [][/\ cfg.interval # 0 => ~RespondRuns
       /\ (cfg.interval # 0 /\ (state' # state \/ last_cycle' # last_cycle))
              => CycleEnds
       /\ Starts => (g'.pc = "spawned" <=> cfg.interval # 0)
       /\ g'.pc # "none" => cfg.interval # 0]_vars

\* With the interval -1 the task has written "up" or "drain" and sleeps,
\* and a connection got that State from respond() with no run() of its own.
C20_Witness ==
    \E c \in Conns :
        /\ cfg.interval < 0
        /\ g.pc = "sleep"
        /\ state.value # ""
        /\ conn[c].pc = "sent"
        /\ conn[c].raw = NoRaw
        /\ conn[c].token = state.value

\* A step in which the greenlet calls run(): at its start or after a sleep.
RunBegins == g.pc # "run" /\ g'.pc = "run"

\* C21: every cycle of the background task, whether it wrote the State or
\* ended in a fault, ends in a sleep of interval seconds that begins when
\* the work of the cycle is over, and a run() other than the first begins
\* only out of that sleep, once the interval has passed in full.
C21_FullSleepBetweenRuns ==
    [][/\ CycleEnds => g'.wake = now + cfg.interval
       /\ RunBegins => \/ g.pc = "spawned"
                       \/ (g.pc = "sleep" /\ now >= g.wake)]_vars

\* The first cycle ended in a fault at time 0, and the second run() begins
\* one whole interval later.
C21_Witness ==
    /\ g.pc = "run"
    /\ last_cycle.type = "raise"
    /\ cfg.interval = MaxInterval
    /\ now = MaxInterval

\* stop_services is inside plugin.stop(), which has not returned yet.
Stopping == \E s \in Callers : sig[s].pc = "join" /\ ~sig[s].api

\* A step in which plugin.stop() returns to stop_services.
StopReturns ==
    \E s \in Callers : sig[s].pc # "done" /\ sig'[s].pc = "done" /\ ~sig'[s].api

\* C22: after the first signal the listener is closed when plugin.stop() has
\* returned and not before, and in every run it is closed in the end, also
\* when the greenlet does not leave its loop within stop_timeout and is
\* killed; as long as stop() waits, connections are accepted and respond()
\* answers them with the cached State.
C22_ListenerClosesAfterStop ==
    /\ [](Stopping => listening /\ closes = 0)
    /\ [][(listening /\ ~listening') => StopReturns]_vars
    /\ [][\A c \in Conns :
             (Stopping /\ Answers(c)) =>
                 conn'[c].raw = NoRaw /\ conn'[c].token = state.value]_vars
    /\ HERALD_STOPPING ~> (closes = 1 /\ ~listening)

\* The greenlet was killed at the end of stop_timeout and the listener is
\* closed, while the handler of a connection that got the cached State is
\* still at work.
C22_Witness ==
    /\ kills = 1
    /\ closes = 1
    /\ ~listening
    /\ \E s \in Callers : sig[s].pc = "done" /\ sig[s].deadline = 0
    /\ \E c \in Conns : conn[c].pc = "sent" /\ conn[c].token = state.value
                        /\ state.value # ""

\* A step that writes the State.
Writes == state' # state \/ last_write' # last_write

\* plugin.stop() has returned to one of its callers.
StopReturned == \E s \in Callers : sig[s].pc = "done"

\* C23: once stop() has cleared plugin_enabled, which nothing sets again, the
\* greenlet begins no cycle: the only cycle that can still end, and write
\* the State, is the one that was inside run() when stop() was called; once
\* that cycle is over the greenlet is never inside run() again; and when
\* stop() has returned nothing writes the State.
C23_NoCycleAfterStop ==
    /\ [][~plugin_enabled => ~plugin_enabled']_vars
    /\ [][RunBegins => plugin_enabled]_vars
    /\ [][Writes => CycleEnds]_vars
    /\ []((~plugin_enabled /\ g.pc # "run") => [](g.pc # "run"))
    /\ [][StopReturned => ~Writes]_vars

\* stop() waits in its join, and the cycle that was in flight when it was
\* called has written the State since and sleeps.
C23_Witness ==
    \E s \in Callers :
        /\ sig[s].pc = "join"
        /\ ~plugin_enabled
        /\ g.pc = "sleep"
        /\ last_write.timestamp > sig[s].deadline - cfg.stop_timeout
        /\ state.timestamp = last_write.timestamp

\* stop_services waits in the join of stop() for a greenlet that cannot
\* reach the head of its loop before the Timeout: its sleep ends after the
\* deadline, or it is inside run() and the sleep that follows will.
Doomed ==
    \E s \in Callers :
        /\ sig[s].pc = "join"
        /\ \/ g.pc = "sleep" /\ g.wake > sig[s].deadline
           \/ g.pc = "run" /\ now + cfg.interval > sig[s].deadline

\* A step in which the greenlet leaves its loop by itself.
ExitsGracefully == g.pc # "dead" /\ g'.pc = "dead" /\ kills' = kills

\* C24: plugin_enabled is tested at the head of the loop only, before the
\* first cycle and after each sleep.  When stop() is called with the rest of
\* the sleep, or of run() and its sleep, longer than stop_timeout, the
\* greenlet does not leave its loop and stop() ends by killing it; it leaves
\* by itself only where its sleep is over, the deadline of stop() not yet
\* passed.
C24_LateSleepIsKilled ==
    /\ [][Doomed => (Doomed' \/ kills' = kills + 1)]_vars
    /\ [][Doomed => ~ExitsGracefully]_vars
    /\ [][ExitsGracefully =>
             /\ ~plugin_enabled
             /\ g.pc = "spawned" \/ (g.pc = "sleep" /\ g.wake <= now)
             /\ \A s \in Callers : sig[s].pc = "join" => now <= sig[s].deadline]_vars
    /\ Doomed ~> (kills = 1 /\ g.pc = "dead")

\* The Timeout of stop() expires while the greenlet still sleeps, for one
\* second more.
C24_Witness ==
    \E s \in Callers :
        /\ sig[s].pc = "join"
        /\ now = sig[s].deadline
        /\ g.pc = "sleep"
        /\ g.wake = now + 1

\* The scan of the threshold rules on the number v comes to rule i, a
\* percentage rule: the rules before it are well-formed comparisons that v
\* does not satisfy.
ScanReaches(rules, v, i) ==
    /\ rules[i].action = "pct"
    /\ \A j \in 1..(i - 1) :
          /\ rules[j].action # "pct"
          /\ WellFormed(rules[j].literal)
          /\ ~Satisfies(v, rules[j])

\* The threshold rules have been evaluated on a number, and the scan came
\* to a percentage rule.
PctReached ==
    /\ proc.pc = "evaluated"
    /\ IsNumber(proc.value)
    /\ \E i \in 1..Len(proc.kwargs.thresholds) :
          ScanReaches(proc.kwargs.thresholds, float(proc.value), i)

\* C25: a percentage rule that the scan comes to ends it, for every number:
\* the threshold result is "<min_resp>%", "" or "<pct>%" with pct of 1..100,
\* and so never the action of a rule configured after it.
C25_PctEndsTheScan ==
    PctReached =>
        \A i \in 1..Len(proc.kwargs.thresholds) :
            ScanReaches(proc.kwargs.thresholds, float(proc.value), i) =>
                /\ proc.ht_result.kind = "val"
                /\ \/ proc.ht_result.tok =
                          ToString(proc.kwargs.thresholds[i].min_resp) \o "%"
                   \/ proc.ht_result.tok = ""
                   \/ \E pct \in 1..100 :
                          proc.ht_result.tok = ToString(pct) \o "%"
====
